---- MODULE Spec2Model ----
(***************************************************************************)
(* The Euler simulation loops of the notebook applications under          *)
(* src/apps: every run_simulation cell sets its stocks, then repeats      *)
(* "compute flows, append a row, Euler-update and clamp the stocks,        *)
(* t += dt" while t <= t_end + dt/2, and returns the rows as a table.      *)
(*                                                                         *)
(* Python floats are modelled as decimal floating-point numbers <<m, e>>   *)
(* (value m * 10^e) with 8 significant digits, round-half-even after      *)
(* every operation, the binary64 range (overflow to inf above             *)
(* 1.7976931e308), and inf and nan with Python's rules for + - * / max    *)
(* and the comparisons.  Slider values (decimal literals) and the time    *)
(* counter are exact in this arithmetic.                                   *)
(***************************************************************************)
EXTENDS Integers, Sequences, FiniteSets, TLC

(***************************************************************************)
(* Floating-point values                                                   *)
(***************************************************************************)
NaN == <<0, 9999>>
PosInf == <<1, 9999>>
NegInf == <<-1, 9999>>
Zero == <<0, 0>>

IsNaN(a) == a = NaN
IsInf(a) == a = PosInf \/ a = NegInf
IsFinite(a) == a[2] # NaN[2]

Abs(n) == IF n < 0 THEN 0 - n ELSE n
Sgn(n) == IF n > 0 THEN 1 ELSE IF n < 0 THEN 0 - 1 ELSE 0
Min(x, y) == IF x <= y THEN x ELSE y

RECURSIVE Digits(_)
Digits(n) == IF n < 10 THEN 1 ELSE 1 + Digits(n \div 10)

\* canonical form: no trailing zero in the mantissa, zero is <<0, 0>>
RECURSIVE Strip(_, _)
Strip(m, e) ==
    IF m = 0 THEN Zero
    ELSE IF m % 10 = 0 THEN Strip(m \div 10, e + 1)
    ELSE <<m, e>>

\* the float written as the decimal literal m * 10^e
F(m, e) == Strip(m, e)

\* range of binary64: overflow gives inf, underflow gives 0
Ranged(s, m, e) ==
    LET X == e + Digits(m) - 1
        lead == m * 10^(8 - Digits(m))
    IN  IF X > 308 \/ (X = 308 /\ lead > 17976931)
        THEN (IF s > 0 THEN PosInf ELSE NegInf)
        ELSE IF X < 0 - 324 THEN Zero
        ELSE <<s * m, e>>

\* round the magnitude S + rem/R (0 <= rem < R) half-even to 8 digits;
\* the result is <<mantissa, number of digits dropped>>
RoundMag(S, rem, R) ==
    LET n == Digits(S)
    IN  IF n <= 8
        THEN LET up == (2 * rem > R) \/ (2 * rem = R /\ S % 2 = 1)
             IN  <<IF up THEN S + 1 ELSE S, 0>>
        ELSE LET k == n - 8
                 cut == 10^k
                 base == S \div cut
                 low == S % cut
                 up == (2 * low > cut)
                       \/ (2 * low = cut /\ (rem > 0 \/ base % 2 = 1))
             IN  <<IF up THEN base + 1 ELSE base, k>>

\* the float nearest to s * (S + rem/R) * 10^e
Rounded(s, S, rem, R, e) ==
    CHOOSE v \in {IF st = Zero THEN Zero ELSE Ranged(s, st[1], st[2]) :
                    st \in {Strip(r[1], e + r[2]) : r \in {RoundMag(S, rem, R)}}} :
        TRUE

\* the sum of the sign s, the magnitude |s| and the fraction rem/R, rounded
AddSigned(s, rem, R, e) ==
    Rounded(IF s >= 0 THEN 1 ELSE 0 - 1,
            IF s >= 0 THEN s ELSE IF rem = 0 THEN 0 - s ELSE 0 - s - 1,
            IF s >= 0 \/ rem = 0 THEN rem ELSE R - rem, R, e)

\* ah + ml/R, both in units of 10^e
AddParts(ah, ml, R, e) == AddSigned(ah + ml \div R, ml % R, R, e)

\* the operand with the larger exponent is shifted left by k digits (to at
\* most 9 digits), the other one right by the remaining r0 digits
AddShifted(hi, lo, k, r0) ==
    AddParts(hi[1] * 10^k, IF r0 > 9 THEN Sgn(lo[1]) ELSE lo[1],
             10^Min(r0, 9), lo[2] + r0)

\* hi is the operand with the larger exponent, diff the difference
AddAligned(hi, lo, diff, k) == AddShifted(hi, lo, k, diff - k)

AddFinite(a, b) ==
    IF a[1] = 0 THEN b
    ELSE IF b[1] = 0 THEN a
    ELSE IF a[2] >= b[2]
         THEN AddAligned(a, b, a[2] - b[2],
                         Min(a[2] - b[2], 9 - Digits(Abs(a[1]))))
         ELSE AddAligned(b, a, b[2] - a[2],
                         Min(b[2] - a[2], 9 - Digits(Abs(b[1]))))

\* the product hi * 10^8 + lo of two mantissas, hi of d digits
MulProduct(s, hi, lo, d, e) ==
    IF hi = 0 THEN Rounded(s, lo, 0, 1, e)
    ELSE Rounded(s, hi * 10^(9 - d) + lo \div 10^(d - 1),
                 lo % 10^(d - 1), 10^(d - 1), e + d - 1)

\* the low eight digits losum % 10^8 and the carry into the high digits
MulCarry(s, high, losum, e) ==
    MulProduct(s, high + losum \div 10^8, losum % 10^8,
               Digits(high + losum \div 10^8), e)

\* schoolbook product of the four-digit halves (the integers are 32 bits wide)
MulHalves(s, a1, a0, b1, b0, e) ==
    MulCarry(s, a1 * b1 + (a1 * b0 + a0 * b1) \div 10^4,
             ((a1 * b0 + a0 * b1) % 10^4) * 10^4 + a0 * b0, e)

MulMagnitudes(s, A, B, e) ==
    IF A = 0 \/ B = 0 THEN Zero
    ELSE MulHalves(s, A \div 10^4, A % 10^4, B \div 10^4, B % 10^4, e)

MulFinite(a, b) ==
    MulMagnitudes(Sgn(a[1]) * Sgn(b[1]), Abs(a[1]), Abs(b[1]), a[2] + b[2])

RECURSIVE DivLoop(_, _, _, _)
DivLoop(q, r, B, k) ==
    IF q >= 10^8 \/ r = 0 THEN <<q, r, k>>
    ELSE DivLoop(q * 10 + (r * 10) \div B, (r * 10) % B, B, k + 1)

DivFinite(a, b) ==
    LET A == Abs(a[1])
        B == Abs(b[1])
        qr == DivLoop(A \div B, A % B, B, 0)
    IN  IF A = 0 THEN Zero
        ELSE Rounded(Sgn(a[1]) * Sgn(b[1]), qr[1], qr[2], B,
                     a[2] - b[2] - qr[3])

\* Python evaluates the operands of an operation once, before it is applied:
\* Add, Mul, Div, Neg and the comparisons bind the values of their operands
\* and apply AddValues, MulValues, DivValues to them
AddValues(a, b) ==
    IF IsNaN(a) \/ IsNaN(b) THEN NaN
    ELSE IF IsInf(a) THEN (IF IsInf(b) /\ b # a THEN NaN ELSE a)
    ELSE IF IsInf(b) THEN b
    ELSE AddFinite(a, b)

\* a + b
Add(a, b) == CHOOSE v \in {AddValues(x, y) : x \in {a}, y \in {b}} : TRUE

Neg(a) == CHOOSE v \in {IF IsNaN(x) THEN NaN ELSE <<0 - x[1], x[2]>> : x \in {a}} : TRUE

\* a - b
Sub(a, b) == Add(a, Neg(b))

MulValues(a, b) ==
    IF IsNaN(a) \/ IsNaN(b) THEN NaN
    ELSE IF IsInf(a) \/ IsInf(b)
         THEN (IF a[1] = 0 \/ b[1] = 0 THEN NaN
               ELSE IF Sgn(a[1]) * Sgn(b[1]) > 0 THEN PosInf ELSE NegInf)
    ELSE MulFinite(a, b)

\* a * b
Mul(a, b) == CHOOSE v \in {MulValues(x, y) : x \in {a}, y \in {b}} : TRUE

DivValues(a, b) ==
    IF IsNaN(a) \/ IsNaN(b) \/ b = Zero THEN NaN
    ELSE IF IsInf(a)
         THEN (IF IsInf(b) THEN NaN
               ELSE IF Sgn(a[1]) * Sgn(b[1]) > 0 THEN PosInf ELSE NegInf)
    ELSE IF IsInf(b) THEN Zero
    ELSE DivFinite(a, b)

\* a / b for b # 0 (b = 0 raises ZeroDivisionError: the divisors of a cell)
Div(a, b) == CHOOSE v \in {DivValues(x, y) : x \in {a}, y \in {b}} : TRUE

\* a < b, a <= b, a >= b: every comparison with nan is false
Lt(a, b) ==
    \E x \in {a}, y \in {b} :
        /\ ~IsNaN(x)
        /\ ~IsNaN(y)
        /\ x # y
        /\ Sub(x, y)[1] < 0

Le(a, b) ==
    \E x \in {a}, y \in {b} : ~IsNaN(x) /\ ~IsNaN(y) /\ (x = y \/ Lt(x, y))

Ge(a, b) == Le(b, a)

\* max(a, b) of Python: b when b > a, otherwise a (so max(nan, b) is nan)
PyMax(a, b) ==
    CHOOSE v \in {IF Lt(x, y) THEN y ELSE x : x \in {a}, y \in {b}} : TRUE

(***************************************************************************)
(* Pieces shared by every run_simulation cell                              *)
(***************************************************************************)
\* the update without its clamp: x += dt * net
Euler_unclamped(x, step, net, floor) == Add(x, Mul(step, net))

\* the update with the sign of the net rate slipped: x -= dt * net
Euler_sign_slip(x, step, net, floor) == PyMax(Sub(x, Mul(step, net)), floor)

\* the update written as an assignment: x = dt * net
Euler_assign(x, step, net, floor) == PyMax(Mul(step, net), floor)

\* x += dt * net ; x = max(x, floor)
Euler(x, step, net, floor) == PyMax(Add(x, Mul(step, net)), floor)

\* a counter advanced by one instead of by the step: t += 1
Advance_one(time, step) == Add(time, F(1, 0))

\* the counter is not advanced: the statement t += dt is missing
Advance_none(time, step) == time

\* t += dt
Advance(time, step) == Add(time, step)

\* the row appended by rows.append({"time": t, stocks..., flows...})
Row(time, s, f) == [time |-> time] @@ s @@ f

(***************************************************************************)
(* ai_capex_dynamics                                                       *)
(***************************************************************************)
capex_parameter_controls ==
    [base_capex_rate |-> F(200, 0), reference_valuation |-> F(15, 0),
     deployment_lag |-> F(4, 0), infrastructure_life |-> F(8, 0),
     revenue_per_capacity |-> F(15, -2), valuation_sensitivity |-> F(3, -1),
     expected_roi |-> F(2, -1), displacement_intensity |-> F(1, -3),
     base_hiring_rate |-> F(5, -2), base_tech_workforce |-> F(6, 0)]

\* slider ends: lowest returns, highest expectations and displacement
capex_bust ==
    [capex_parameter_controls EXCEPT
        !.revenue_per_capacity = F(5, -2), !.valuation_sensitivity = F(8, -1),
        !.expected_roi = F(4, -1), !.displacement_intensity = F(3, -3),
        !.base_hiring_rate = F(1, -2)]

capex_initial ==
    [deployment_pipeline |-> F(400, 0), ai_infrastructure |-> F(500, 0),
     market_cap |-> F(15, 0), tech_employment |-> F(6, 0)]

capex_floor ==
    [deployment_pipeline |-> Zero, ai_infrastructure |-> Zero,
     market_cap |-> F(1, 0), tech_employment |-> Zero]

capex_flows(s, p) ==
    LET new_capex == Div(Mul(p.base_capex_rate, s.market_cap), p.reference_valuation)
        capacity_deployed == Div(s.deployment_pipeline, p.deployment_lag)
        capacity_retired == Div(s.ai_infrastructure, p.infrastructure_life)
        tech_hiring == Mul(s.tech_employment, p.base_hiring_rate)
        job_displacement == Mul(s.ai_infrastructure, p.displacement_intensity)
        ai_revenue == Div(Mul(Mul(s.ai_infrastructure, p.revenue_per_capacity),
                              s.tech_employment), p.base_tech_workforce)
        employment_ratio == Div(s.tech_employment, p.base_tech_workforce)
        actual_roi == Div(ai_revenue, PyMax(s.ai_infrastructure, F(1, -6)))
        pe_ratio == Div(Mul(s.market_cap, F(1000, 0)), PyMax(ai_revenue, F(1, -6)))
        returns_gap == Sub(actual_roi, p.expected_roi)
        valuation_adjustment == Mul(Mul(s.market_cap, p.valuation_sensitivity), returns_gap)
    IN  [new_capex |-> new_capex, capacity_deployed |-> capacity_deployed,
         capacity_retired |-> capacity_retired,
         valuation_adjustment |-> valuation_adjustment,
         tech_hiring |-> tech_hiring, job_displacement |-> job_displacement,
         ai_revenue |-> ai_revenue, actual_roi |-> actual_roi,
         returns_gap |-> returns_gap, pe_ratio |-> pe_ratio,
         employment_ratio |-> employment_ratio]

\* the denominators of the divisions of one iteration
capex_divisors(s, p) ==
    LET ai_revenue == Div(Mul(Mul(s.ai_infrastructure, p.revenue_per_capacity),
                              s.tech_employment), p.base_tech_workforce)
    IN  {p.reference_valuation, p.deployment_lag, p.infrastructure_life,
         p.base_tech_workforce, PyMax(s.ai_infrastructure, F(1, -6)),
         PyMax(ai_revenue, F(1, -6))}

capex_net(f) ==
    [deployment_pipeline |-> Sub(f.new_capex, f.capacity_deployed),
     ai_infrastructure |-> Sub(f.capacity_deployed, f.capacity_retired),
     market_cap |-> f.valuation_adjustment,
     tech_employment |-> Sub(f.tech_hiring, f.job_displacement)]

(***************************************************************************)
(* silver_supply_dynamics                                                  *)
(***************************************************************************)
silver_parameter_controls ==
    [western_supply_base |-> F(640, 0), base_industrial_demand |-> F(500, 0),
     solar_demand_growth |-> F(200, 0), retail_buy_intensity |-> F(15, -2),
     china_export_fraction |-> F(8, -1), restriction_rate |-> F(3, -2),
     geopolitical_pressure |-> F(15, -1), price_adjustment_speed |-> F(5, -1),
     institutional_dampening |-> F(1, 0), social_media_amplifier |-> F(3, 0),
     sentiment_decay_rate |-> F(4, -1), reference_inventory |-> F(300, 0)]

\* slider ends: least supply, most demand, strongest export restriction
silver_squeeze ==
    [silver_parameter_controls EXCEPT
        !.western_supply_base = F(500, 0), !.base_industrial_demand = F(650, 0),
        !.solar_demand_growth = F(400, 0), !.restriction_rate = F(15, -2),
        !.geopolitical_pressure = F(3, 0), !.reference_inventory = F(500, 0)]

\* slider ends: most supply, least demand, small reference inventory
silver_glut ==
    [silver_parameter_controls EXCEPT
        !.western_supply_base = F(800, 0), !.base_industrial_demand = F(400, 0),
        !.solar_demand_growth = F(100, 0), !.price_adjustment_speed = F(15, -1),
        !.sentiment_decay_rate = F(1, 0), !.reference_inventory = F(100, 0)]

\* the restriction_rate slider at its start: no export restriction
silver_unrestricted == [silver_parameter_controls EXCEPT !.restriction_rate = Zero]

silver_initial ==
    [warehouse_inventory |-> F(300, 0), retail_holdings |-> F(200, 0),
     silver_price |-> F(30, 0), chinese_export_capacity |-> F(80, 0),
     retail_sentiment |-> F(3, -1)]

\* the price clamped at 0 like the other stocks: max(silver_price, 0)
silver_floor_zero_price ==
    [warehouse_inventory |-> F(10, 0), retail_holdings |-> Zero,
     silver_price |-> Zero, chinese_export_capacity |-> Zero,
     retail_sentiment |-> F(1, -2)]

silver_floor ==
    [warehouse_inventory |-> F(10, 0), retail_holdings |-> Zero,
     silver_price |-> F(5, 0), chinese_export_capacity |-> Zero,
     retail_sentiment |-> F(1, -2)]

silver_flows(s, p) ==
    LET western_supply == p.western_supply_base
        industrial_demand == Add(p.base_industrial_demand, p.solar_demand_growth)
        net_retail_flow == Mul(Mul(p.retail_buy_intensity, s.retail_sentiment),
                               s.warehouse_inventory)
        chinese_export_flow == Mul(s.chinese_export_capacity, p.china_export_fraction)
        export_restriction == Mul(Mul(s.chinese_export_capacity, p.restriction_rate),
                                  p.geopolitical_pressure)
        inventory_ratio == Div(s.warehouse_inventory, p.reference_inventory)
        effective_amplification == Sub(p.social_media_amplifier, p.institutional_dampening)
        sentiment_decay == Mul(s.retail_sentiment, p.sentiment_decay_rate)
        demand_supply_pressure == Sub(F(1, 0), inventory_ratio)
        price_change == Mul(Mul(s.silver_price, p.price_adjustment_speed),
                            demand_supply_pressure)
        price_momentum == Div(price_change, PyMax(s.silver_price, F(1, -6)))
        sentiment_change == Sub(Mul(effective_amplification, price_momentum),
                                sentiment_decay)
        institutional_edge == Sub(demand_supply_pressure, price_momentum)
    IN  [western_supply |-> western_supply, industrial_demand |-> industrial_demand,
         net_retail_flow |-> net_retail_flow,
         chinese_export_flow |-> chinese_export_flow,
         export_restriction |-> export_restriction, price_change |-> price_change,
         sentiment_change |-> sentiment_change, inventory_ratio |-> inventory_ratio,
         demand_supply_pressure |-> demand_supply_pressure,
         price_momentum |-> price_momentum,
         effective_amplification |-> effective_amplification,
         sentiment_decay |-> sentiment_decay,
         institutional_edge |-> institutional_edge]

silver_divisors(s, p) ==
    {p.reference_inventory, PyMax(s.silver_price, F(1, -6))}

\* the retail purchases are not taken out of the warehouse
silver_net_no_retail(f) ==
    [warehouse_inventory |->
        Sub(Add(f.western_supply, f.chinese_export_flow), f.industrial_demand),
     retail_holdings |-> f.net_retail_flow,
     silver_price |-> f.price_change,
     chinese_export_capacity |-> Sub(Zero, f.export_restriction),
     retail_sentiment |-> f.sentiment_change]

silver_net(f) ==
    [warehouse_inventory |->
        Sub(Sub(Add(f.western_supply, f.chinese_export_flow), f.industrial_demand),
            f.net_retail_flow),
     retail_holdings |-> f.net_retail_flow,
     silver_price |-> f.price_change,
     chinese_export_capacity |-> Sub(Zero, f.export_restriction),
     retail_sentiment |-> f.sentiment_change]

(***************************************************************************)
(* sodium_battery_energy                                                   *)
(***************************************************************************)
sodium_parameter_controls ==
    [investment_budget |-> F(50, 0), battery_lifetime |-> F(15, 0),
     round_trip_efficiency |-> F(85, -2), discharge_hours |-> F(4, 0),
     baseline_growth_rate |-> F(2, -2), cost_decline_rate |-> F(8, -2),
     capacity_utilization |-> F(7, -1), gas_retirement_rate |-> F(5, -2),
     coal_retirement_rate |-> F(3, -2), gas_base_price |-> F(4, 0),
     coal_base_price |-> F(60, 0)]

\* slider ends: largest budget, fastest cost decline and retirements
sodium_boom ==
    [sodium_parameter_controls EXCEPT
        !.investment_budget = F(500, 0), !.battery_lifetime = F(30, 0),
        !.round_trip_efficiency = F(99, -2), !.discharge_hours = F(1, 0),
        !.cost_decline_rate = F(2, -1), !.capacity_utilization = F(95, -2),
        !.gas_retirement_rate = F(15, -2), !.coal_retirement_rate = F(1, -1)]

\* the baseline_growth_rate and cost_decline_rate sliders at their start
sodium_flat ==
    [sodium_parameter_controls EXCEPT
        !.baseline_growth_rate = Zero, !.cost_decline_rate = Zero]

sodium_initial ==
    [installed_capacity |-> F(100, 0), unit_cost |-> F(8, -2),
     total_demand |-> F(5000, 0), gas_generation |-> F(1500, 0),
     coal_generation |-> F(2000, 0)]

sodium_floor ==
    [installed_capacity |-> Zero, unit_cost |-> F(1, -3), total_demand |-> Zero,
     gas_generation |-> Zero, coal_generation |-> Zero]

sodium_flows(s, p) ==
    LET new_installations == Div(p.investment_budget, PyMax(s.unit_cost, F(1, -6)))
        retirements == Div(s.installed_capacity, p.battery_lifetime)
        cost_reduction == Mul(s.unit_cost, p.cost_decline_rate)
        demand_growth == Mul(s.total_demand, p.baseline_growth_rate)
        dispatchable_power ==
            Div(Mul(Mul(s.installed_capacity, p.round_trip_efficiency),
                    p.capacity_utilization), p.discharge_hours)
        cost_per_kwh == Mul(s.unit_cost, F(1000, 0))
        gas_price == Div(Mul(p.gas_base_price, s.gas_generation), F(1500, 0))
        coal_price == Div(Mul(p.coal_base_price, s.coal_generation), F(2000, 0))
        net_peak_demand == Sub(s.total_demand, dispatchable_power)
        storage_penetration == Div(dispatchable_power, PyMax(s.total_demand, F(1, -6)))
        gas_displaced == Mul(Mul(s.gas_generation, storage_penetration),
                             p.gas_retirement_rate)
        coal_displaced == Mul(Mul(s.coal_generation, storage_penetration),
                              p.coal_retirement_rate)
    IN  [new_installations |-> new_installations, retirements |-> retirements,
         cost_reduction |-> cost_reduction, demand_growth |-> demand_growth,
         gas_displaced |-> gas_displaced, coal_displaced |-> coal_displaced,
         dispatchable_power |-> dispatchable_power,
         net_peak_demand |-> net_peak_demand,
         storage_penetration |-> storage_penetration,
         cost_per_kwh |-> cost_per_kwh, gas_price |-> gas_price,
         coal_price |-> coal_price]

sodium_divisors(s, p) ==
    {PyMax(s.unit_cost, F(1, -6)), p.battery_lifetime, p.discharge_hours,
     F(1500, 0), F(2000, 0), PyMax(s.total_demand, F(1, -6))}

sodium_net(f) ==
    [installed_capacity |-> Sub(f.new_installations, f.retirements),
     unit_cost |-> Sub(Zero, f.cost_reduction),
     total_demand |-> f.demand_growth,
     gas_generation |-> Sub(Zero, f.gas_displaced),
     coal_generation |-> Sub(Zero, f.coal_displaced)]

(***************************************************************************)
(* solar_ai_power                                                          *)
(***************************************************************************)
solar_parameter_controls ==
    [solar_investment |-> F(400, 0), panel_lifetime |-> F(30, 0),
     demand_growth_rate |-> F(22, -2), cost_learning_rate |-> F(1, -1),
     storage_investment |-> F(50, 0), storage_unit_cost |-> F(15, -2),
     connection_rate |-> F(5, -1), capacity_factor |-> F(25, -2),
     battery_lifetime |-> F(15, 0), discharge_hours |-> F(4, 0),
     battery_efficiency |-> F(9, -1)]

\* slider ends: least investment, fastest connection, learning and retirement
solar_drain ==
    [solar_parameter_controls EXCEPT
        !.solar_investment = F(50, 0), !.panel_lifetime = F(15, 0),
        !.cost_learning_rate = F(2, -1), !.storage_investment = F(5, 0),
        !.storage_unit_cost = F(5, -1), !.connection_rate = F(8, -1),
        !.battery_lifetime = F(8, 0)]

solar_initial ==
    [solar_capacity |-> F(2300, 0), data_center_demand |-> F(50, 0),
     solar_cost |-> F(1, 0), battery_storage |-> F(200, 0),
     grid_queue |-> F(1100, 0)]

solar_floor ==
    [solar_capacity |-> Zero, data_center_demand |-> Zero,
     solar_cost |-> F(1, -2), battery_storage |-> Zero, grid_queue |-> Zero]

solar_flows(s, p) ==
    LET project_submissions == Div(p.solar_investment, PyMax(s.solar_cost, F(1, -6)))
        grid_connections == Mul(s.grid_queue, p.connection_rate)
        panel_retirements == Div(s.solar_capacity, p.panel_lifetime)
        demand_increase == Mul(s.data_center_demand, p.demand_growth_rate)
        cost_reduction == Mul(s.solar_cost, p.cost_learning_rate)
        storage_deployed == Div(p.storage_investment, p.storage_unit_cost)
        storage_retired == Div(s.battery_storage, p.battery_lifetime)
        solar_power_output == Mul(s.solar_capacity, p.capacity_factor)
        dispatchable_storage == Div(Mul(s.battery_storage, p.battery_efficiency),
                                    p.discharge_hours)
        queue_pressure == Div(s.grid_queue, PyMax(s.solar_capacity, F(1, -6)))
        total_clean_power == Add(solar_power_output, dispatchable_storage)
        clean_to_demand_ratio == Div(total_clean_power,
                                     PyMax(s.data_center_demand, F(1, -6)))
    IN  [project_submissions |-> project_submissions,
         grid_connections |-> grid_connections,
         panel_retirements |-> panel_retirements,
         demand_increase |-> demand_increase, cost_reduction |-> cost_reduction,
         storage_deployed |-> storage_deployed, storage_retired |-> storage_retired,
         solar_power_output |-> solar_power_output,
         dispatchable_storage |-> dispatchable_storage,
         total_clean_power |-> total_clean_power,
         clean_to_demand_ratio |-> clean_to_demand_ratio,
         queue_pressure |-> queue_pressure]

solar_divisors(s, p) ==
    {PyMax(s.solar_cost, F(1, -6)), p.panel_lifetime, p.storage_unit_cost,
     p.battery_lifetime, p.discharge_hours, PyMax(s.solar_capacity, F(1, -6)),
     PyMax(s.data_center_demand, F(1, -6))}

solar_net(f) ==
    [solar_capacity |-> Sub(f.grid_connections, f.panel_retirements),
     data_center_demand |-> f.demand_increase,
     solar_cost |-> Sub(Zero, f.cost_reduction),
     battery_storage |-> Sub(f.storage_deployed, f.storage_retired),
     grid_queue |-> Sub(f.project_submissions, f.grid_connections)]

(***************************************************************************)
(* ai_agent_disruption                                                     *)
(***************************************************************************)
agent_parameter_controls ==
    [base_capability_growth |-> F(12, -1), innovation_rate |-> F(1, -2),
     imitation_rate |-> F(25, -2), potential_market |-> F(500, 0),
     capability_threshold |-> F(4, 0), displacement_rate |-> F(8, -2),
     revenue_per_user |-> F(200, 0), reinvestment_fraction |-> F(5, -1),
     compute_per_user |-> F(5, -1), depreciation_rate |-> F(15, -2),
     compute_cost_per_unit |-> F(5, -1), base_compute_growth |-> F(10, 0)]

\* slider ends: fastest capability growth and compute investment
agent_takeoff ==
    [agent_parameter_controls EXCEPT
        !.base_capability_growth = F(3, 0), !.innovation_rate = F(5, -2),
        !.imitation_rate = F(6, -1), !.potential_market = F(1000, 0),
        !.capability_threshold = F(1, 0), !.displacement_rate = F(1, -2),
        !.revenue_per_user = F(600, 0), !.reinvestment_fraction = F(9, -1),
        !.depreciation_rate = F(5, -2), !.compute_cost_per_unit = F(1, -1),
        !.base_compute_growth = F(40, 0)]

\* the run starts without any agent user
agent_initial_no_users ==
    [task_horizon |-> F(1, 0), agent_users |-> Zero,
     saas_revenue |-> F(300, 0), gpu_compute |-> F(100, 0)]

agent_initial ==
    [task_horizon |-> F(1, 0), agent_users |-> F(50, 0),
     saas_revenue |-> F(300, 0), gpu_compute |-> F(100, 0)]

agent_floor ==
    [task_horizon |-> Zero, agent_users |-> Zero, saas_revenue |-> Zero,
     gpu_compute |-> Zero]

agent_flows(s, p) ==
    LET capability_growth ==
            Div(Mul(Mul(s.task_horizon, p.base_capability_growth), s.gpu_compute),
                F(100, 0))
        compute_depreciation == Mul(s.gpu_compute, p.depreciation_rate)
        adoption_fraction == Div(s.agent_users, p.potential_market)
        remaining_market == Sub(p.potential_market, s.agent_users)
        ai_revenue == Div(Mul(s.agent_users, p.revenue_per_user), F(1000, 0))
        capability_readiness ==
            Div(s.task_horizon, Add(s.task_horizon, p.capability_threshold))
        compute_demand == Mul(s.agent_users, p.compute_per_user)
        compute_investment ==
            Add(p.base_compute_growth,
                Div(Mul(ai_revenue, p.reinvestment_fraction), p.compute_cost_per_unit))
        revenue_displacement ==
            Mul(Mul(Mul(s.saas_revenue, p.displacement_rate), adoption_fraction),
                capability_readiness)
        compute_availability == Div(s.gpu_compute, Add(compute_demand, s.gpu_compute))
        new_adoptions ==
            Mul(Mul(Mul(Add(p.innovation_rate, Mul(p.imitation_rate, adoption_fraction)),
                        remaining_market), capability_readiness),
                compute_availability)
    IN  [capability_growth |-> capability_growth, new_adoptions |-> new_adoptions,
         revenue_displacement |-> revenue_displacement,
         compute_investment |-> compute_investment,
         compute_depreciation |-> compute_depreciation,
         adoption_fraction |-> adoption_fraction,
         remaining_market |-> remaining_market, ai_revenue |-> ai_revenue,
         capability_readiness |-> capability_readiness,
         compute_demand |-> compute_demand,
         compute_availability |-> compute_availability]

agent_divisors(s, p) ==
    {F(100, 0), p.potential_market, F(1000, 0),
     Add(s.task_horizon, p.capability_threshold), p.compute_cost_per_unit,
     Add(Mul(s.agent_users, p.compute_per_user), s.gpu_compute)}

agent_net(f) ==
    [task_horizon |-> f.capability_growth,
     agent_users |-> f.new_adoptions,
     saas_revenue |-> Sub(Zero, f.revenue_displacement),
     gpu_compute |-> Sub(f.compute_investment, f.compute_depreciation)]

(***************************************************************************)
(* structural_oil_supply_shortage                                          *)
(***************************************************************************)
oil_parameter_controls ==
    [natural_decline_fraction |-> F(5, -2), base_ev_growth_rate |-> F(12, 0),
     price_sensitivity |-> F(3, -1), barrels_per_ev_per_day |-> F(2, -3),
     displacement_efficiency |-> F(7, -1),
     annual_demand_growth_fraction |-> F(9, -3),
     reference_oil_price |-> F(75, 0), price_elasticity |-> F(25, -1),
     positive_incentive_filter |-> F(1, -1), breakeven_price |-> F(65, 0),
     investment_response_factor |-> F(15, -1),
     vitol_peak_demand_projection |-> F(112, 0),
     realistic_peak_demand_estimate |-> F(120, 0)]

\* slider ends: every field declines within a year, no investment response
oil_collapse ==
    [oil_parameter_controls EXCEPT
        !.natural_decline_fraction = F(1, 0),
        !.investment_response_factor = Zero]

\* slider start of the reference price
oil_free == [oil_parameter_controls EXCEPT !.reference_oil_price = Zero]

\* slider start of the breakeven price
oil_costless == [oil_parameter_controls EXCEPT !.breakeven_price = Zero]

\* the breakeven price six slider steps (of 3.25) above its default
oil_unprofitable == [oil_parameter_controls EXCEPT !.breakeven_price = F(845, -1)]

oil_initial ==
    [oil_supply_capacity |-> F(107, 0), cumulative_ev_fleet |-> F(22, 0),
     base_oil_demand_growth |-> F(107, 0)]

oil_floor ==
    [oil_supply_capacity |-> Zero, cumulative_ev_fleet |-> Zero,
     base_oil_demand_growth |-> Zero]

\* ev_adoption_multiplier assigned before oil_price_effect_on_evs: it reads
\* the 0.0 the name is given before the loop
oil_flows_placeholder(s, p) ==
    LET oil_demand_displaced_by_evs ==
            Mul(Mul(s.cumulative_ev_fleet, p.barrels_per_ev_per_day),
                p.displacement_efficiency)
        actual_oil_demand == Sub(s.base_oil_demand_growth, oil_demand_displaced_by_evs)
        supply_demand_gap == Sub(actual_oil_demand, s.oil_supply_capacity)
        gap_ratio == Div(supply_demand_gap, s.oil_supply_capacity)
        oil_price ==
            Add(p.reference_oil_price,
                Mul(Mul(gap_ratio, p.price_elasticity), p.reference_oil_price))
        oil_price_effect_on_evs ==
            Mul(Div(Sub(oil_price, p.reference_oil_price), p.reference_oil_price),
                p.price_sensitivity)
        ev_adoption_multiplier == Add(F(1, 0), Zero)
        price_above_breakeven == Sub(oil_price, p.breakeven_price)
        normalized_investment_signal == Div(price_above_breakeven, p.breakeven_price)
        investment_incentive ==
            Div(Add(normalized_investment_signal, p.positive_incentive_filter), F(2, 0))
        new_capacity_investment == Mul(investment_incentive, p.investment_response_factor)
        field_decline_rate == Mul(s.oil_supply_capacity, p.natural_decline_fraction)
        ev_adoption_rate == Mul(p.base_ev_growth_rate, ev_adoption_multiplier)
        demand_increase_rate ==
            Mul(s.base_oil_demand_growth, p.annual_demand_growth_fraction)
    IN  [new_capacity_investment |-> new_capacity_investment,
         field_decline_rate |-> field_decline_rate,
         ev_adoption_rate |-> ev_adoption_rate,
         demand_increase_rate |-> demand_increase_rate,
         ev_adoption_multiplier |-> ev_adoption_multiplier,
         oil_price_effect_on_evs |-> oil_price_effect_on_evs,
         oil_demand_displaced_by_evs |-> oil_demand_displaced_by_evs,
         actual_oil_demand |-> actual_oil_demand,
         supply_demand_gap |-> supply_demand_gap, gap_ratio |-> gap_ratio,
         oil_price |-> oil_price, price_above_breakeven |-> price_above_breakeven,
         normalized_investment_signal |-> normalized_investment_signal,
         investment_incentive |-> investment_incentive]

oil_flows(s, p) ==
    LET oil_demand_displaced_by_evs ==
            Mul(Mul(s.cumulative_ev_fleet, p.barrels_per_ev_per_day),
                p.displacement_efficiency)
        actual_oil_demand == Sub(s.base_oil_demand_growth, oil_demand_displaced_by_evs)
        supply_demand_gap == Sub(actual_oil_demand, s.oil_supply_capacity)
        gap_ratio == Div(supply_demand_gap, s.oil_supply_capacity)
        oil_price ==
            Add(p.reference_oil_price,
                Mul(Mul(gap_ratio, p.price_elasticity), p.reference_oil_price))
        oil_price_effect_on_evs ==
            Mul(Div(Sub(oil_price, p.reference_oil_price), p.reference_oil_price),
                p.price_sensitivity)
        ev_adoption_multiplier == Add(F(1, 0), oil_price_effect_on_evs)
        price_above_breakeven == Sub(oil_price, p.breakeven_price)
        normalized_investment_signal == Div(price_above_breakeven, p.breakeven_price)
        investment_incentive ==
            Div(Add(normalized_investment_signal, p.positive_incentive_filter), F(2, 0))
        new_capacity_investment == Mul(investment_incentive, p.investment_response_factor)
        field_decline_rate == Mul(s.oil_supply_capacity, p.natural_decline_fraction)
        ev_adoption_rate == Mul(p.base_ev_growth_rate, ev_adoption_multiplier)
        demand_increase_rate ==
            Mul(s.base_oil_demand_growth, p.annual_demand_growth_fraction)
    IN  [new_capacity_investment |-> new_capacity_investment,
         field_decline_rate |-> field_decline_rate,
         ev_adoption_rate |-> ev_adoption_rate,
         demand_increase_rate |-> demand_increase_rate,
         ev_adoption_multiplier |-> ev_adoption_multiplier,
         oil_price_effect_on_evs |-> oil_price_effect_on_evs,
         oil_demand_displaced_by_evs |-> oil_demand_displaced_by_evs,
         actual_oil_demand |-> actual_oil_demand,
         supply_demand_gap |-> supply_demand_gap, gap_ratio |-> gap_ratio,
         oil_price |-> oil_price, price_above_breakeven |-> price_above_breakeven,
         normalized_investment_signal |-> normalized_investment_signal,
         investment_incentive |-> investment_incentive]

oil_divisors(s, p) ==
    {s.oil_supply_capacity, p.reference_oil_price, p.breakeven_price, F(2, 0)}

oil_net(f) ==
    [oil_supply_capacity |-> Sub(f.new_capacity_investment, f.field_decline_rate),
     cumulative_ev_fleet |-> f.ev_adoption_rate,
     base_oil_demand_growth |-> f.demand_increase_rate]

(***************************************************************************)
(* ai_negative_growth                                                      *)
(***************************************************************************)
negative_growth_parameter_controls ==
    [mpc_workers |-> F(9, -1), mpc_owners |-> F(2, -1), mpc_spread |-> F(7, -1),
     base_consumption |-> F(38, 0), consumption_gain |-> F(2, 0),
     ai_growth_rate |-> F(4, -1), min_labor_share |-> F(5, -2),
     displacement_speed |-> F(1, -1), worker_savings_rate |-> F(7, -2),
     owner_reinvestment_rate |-> F(3, -2), depreciation_fraction |-> F(5, -2),
     ai_productivity_gain |-> F(8, -1), ai_productivity_max |-> F(3, 0),
     ubi_rate |-> Zero]

\* slider ends: the largest transfer rate and worker propensity to consume
negative_growth_ubi ==
    [negative_growth_parameter_controls EXCEPT
        !.ubi_rate = F(9, -1), !.mpc_workers = F(1, 0)]

negative_growth_initial ==
    [ai_adoption |-> F(1, -2), labor_share |-> F(6, -1),
     capital_stock |-> F(100, 0)]

(***************************************************************************)
(* The run_simulation cells as a state machine                             *)
(***************************************************************************)
VARIABLES
    app,        \* the notebook whose run_simulation cell runs
    par,        \* the slider values (the .value of every parameter control)
    dt,         \* dt = time_step.value
    t_end,      \* t_end = final_time.value
    stock,      \* the stock variables of the cell
    rows,       \* rows
    t,          \* t
    pc,         \* "loop": in the while loop, "returned", "raised"
    err,        \* the exception that ended the cell, "none" otherwise
    results,    \* the table returned by the cell
    prior,      \* the runs the cell finished earlier in this session
    other       \* the local variables of a second call of the cell

vars == <<app, par, dt, t_end, stock, rows, t, pc, err, results, prior, other>>

\* no second call of the cell
NoRun == [pc |-> "none"]

Apps ==
    {"ai_capex_dynamics", "silver_supply_dynamics", "sodium_battery_energy",
     "solar_ai_power", "ai_agent_disruption", "structural_oil_supply_shortage",
     "ai_negative_growth"}

\* slider settings the runs are started with
parameter_controls(a) ==
    CASE a = "ai_capex_dynamics" -> {capex_parameter_controls, capex_bust}
      [] a = "silver_supply_dynamics" ->
            {silver_parameter_controls, silver_squeeze, silver_glut}
      [] a = "sodium_battery_energy" -> {sodium_parameter_controls, sodium_boom}
      [] a = "solar_ai_power" -> {solar_parameter_controls, solar_drain}
      [] a = "ai_agent_disruption" -> {agent_parameter_controls, agent_takeoff}
      [] a = "structural_oil_supply_shortage" ->
            {oil_parameter_controls, oil_collapse, oil_free, oil_costless,
             oil_unprofitable}
      [] a = "ai_negative_growth" ->
            {negative_growth_parameter_controls, negative_growth_ubi}

initial_stock_values(a) ==
    CASE a = "ai_capex_dynamics" -> capex_initial
      [] a = "silver_supply_dynamics" -> silver_initial
      [] a = "sodium_battery_energy" -> sodium_initial
      [] a = "solar_ai_power" -> solar_initial
      [] a = "ai_agent_disruption" -> agent_initial
      [] a = "structural_oil_supply_shortage" -> oil_initial
      [] a = "ai_negative_growth" -> negative_growth_initial

\* final times 1..MaxTEnd are explored with every time step of DtTenths
MaxTEnd == 3
DtTenths == {1, 3, 4, 5, 10, 25, 50}

\* the default time controls of ai_capex_dynamics
capex_final_time == F(20, 0)
capex_time_step == F(5, -1)

\* the largest final time of ai_agent_disruption, with a time step of 2.4
agent_final_time_stop == F(200, 0)
agent_long_time_step == F(24, -1)

time_controls(a, p) ==
    {<<F(te, 0), F(k, -1)>> : te \in 1..MaxTEnd, k \in DtTenths}
    \cup {<<capex_final_time, capex_time_step>>}
    \cup (IF a = "ai_agent_disruption" /\ p = agent_takeoff
          THEN {<<agent_final_time_stop, agent_long_time_step>>} ELSE {})

Init ==
    /\ app \in Apps
    /\ par \in parameter_controls(app)
    /\ \E tc \in time_controls(app, par) : t_end = tc[1] /\ dt = tc[2]
    /\ stock = initial_stock_values(app)
    /\ rows = <<>>
    /\ t = Zero
    /\ pc = "loop"
    /\ err = "none"
    /\ results = <<>>
    /\ prior = {}
    /\ other = NoRun

\* loop conditions without the half-step tolerance, and with a full step
LoopCond_strict == Lt(t, t_end)
LoopCond_no_tolerance == Le(t, t_end)
LoopCond_full_step == Le(t, Add(t_end, dt))

\* while t <= t_end + dt / 2
LoopCond == Le(t, Add(t_end, Div(dt, F(2, 0))))

\* the pass with one row dict, made once and filled anew in every pass:
\* every entry of rows is that same dict
Iteration_one_dict(divisors, f, net, floor) ==
    /\ pc = "loop"
    /\ LoopCond
    /\ IF Zero \in divisors
       THEN /\ pc' = "raised"
            /\ err' = "ZeroDivisionError"
            /\ UNCHANGED <<stock, rows, t>>
       ELSE \E row \in {Row(t, stock, f)}, rate \in {net} :
                /\ rows' = [i \in 1..(Len(rows) + 1) |-> row]
                /\ stock' = [n \in DOMAIN stock |->
                                Euler(stock[n], dt, rate[n], floor[n])]
                /\ t' = Advance(t, dt)
                /\ UNCHANGED <<pc, err>>
    /\ UNCHANGED <<app, par, dt, t_end, results, prior, other>>

\* one pass through the body of the while loop: the flows, rows.append,
\* the Euler integration of every stock, t += dt; a division by zero among
\* the flows raises ZeroDivisionError before the row is appended
Iteration(divisors, f, net, floor) ==
    /\ pc = "loop"
    /\ LoopCond
    /\ IF Zero \in divisors
       THEN /\ pc' = "raised"
            /\ err' = "ZeroDivisionError"
            /\ UNCHANGED <<stock, rows, t>>
       ELSE \E row \in {Row(t, stock, f)}, rate \in {net} :
                /\ rows' = Append(rows, row)
                /\ stock' = [n \in DOMAIN stock |->
                                Euler(stock[n], dt, rate[n], floor[n])]
                /\ t' = Advance(t, dt)
                /\ UNCHANGED <<pc, err>>
    /\ UNCHANGED <<app, par, dt, t_end, results, prior, other>>

capex_run_simulation ==
    /\ app = "ai_capex_dynamics"
    /\ Iteration(capex_divisors(stock, par), capex_flows(stock, par),
                 capex_net(capex_flows(stock, par)), capex_floor)

silver_run_simulation ==
    /\ app = "silver_supply_dynamics"
    /\ Iteration(silver_divisors(stock, par), silver_flows(stock, par),
                 silver_net(silver_flows(stock, par)), silver_floor)

sodium_run_simulation ==
    /\ app = "sodium_battery_energy"
    /\ Iteration(sodium_divisors(stock, par), sodium_flows(stock, par),
                 sodium_net(sodium_flows(stock, par)), sodium_floor)

solar_run_simulation ==
    /\ app = "solar_ai_power"
    /\ Iteration(solar_divisors(stock, par), solar_flows(stock, par),
                 solar_net(solar_flows(stock, par)), solar_floor)

agent_run_simulation ==
    /\ app = "ai_agent_disruption"
    /\ Iteration(agent_divisors(stock, par), agent_flows(stock, par),
                 agent_net(agent_flows(stock, par)), agent_floor)

oil_run_simulation ==
    /\ app = "structural_oil_supply_shortage"
    /\ Iteration(oil_divisors(stock, par), oil_flows(stock, par),
                 oil_net(oil_flows(stock, par)), oil_floor)

\* the call of the dict literal placed after rows.append: the pass records
\* its row, then raises
negative_growth_run_simulation_after_append ==
    /\ app = "ai_negative_growth"
    /\ pc = "loop"
    /\ LoopCond
    /\ rows' = Append(rows, Row(t, stock, <<>>))
    /\ pc' = "raised"
    /\ err' = "TypeError"
    /\ UNCHANGED <<app, par, dt, t_end, stock, t, results, prior, other>>

\* the first pass calls a dict literal (multiplier_denom): TypeError
negative_growth_run_simulation ==
    /\ app = "ai_negative_growth"
    /\ pc = "loop"
    /\ LoopCond
    /\ pc' = "raised"
    /\ err' = "TypeError"
    /\ UNCHANGED <<app, par, dt, t_end, stock, rows, t, results, prior, other>>

\* the loop ends: results = pd.DataFrame(rows).set_index("time")
return_results ==
    /\ pc = "loop"
    /\ ~LoopCond
    /\ results' = rows
    /\ pc' = "returned"
    /\ UNCHANGED <<app, par, dt, t_end, stock, rows, t, err, prior, other>>

Next ==
    \/ capex_run_simulation
    \/ silver_run_simulation
    \/ sodium_run_simulation
    \/ solar_run_simulation
    \/ agent_run_simulation
    \/ oil_run_simulation
    \/ negative_growth_run_simulation
    \/ return_results

Spec == Init /\ [][Next]_vars

\* the cell is one blocking computation: a call that can take a step takes
\* it.  This is WF_vars(Next) with ENABLED <<Next>>_vars written as
\* pc = "loop": in the loop the cell either iterates, raises or returns
FairSpec == Spec /\ ([]<>(pc # "loop") \/ []<><<Next>>_vars)

(***************************************************************************)
(* A notebook session: the cell takes the sliders as arguments, so a       *)
(* change of a slider's value runs the cell again.  run_simulation is a    *)
(* plain function (no await, no thread): the change is delivered when the  *)
(* cell is not running.                                                    *)
(***************************************************************************)
\* at most MaxPrior finished runs are remembered
MaxPrior == 2

\* final time and time step of the runs of a session
session_time_controls == {<<F(1, 0), F(5, -1)>>, <<F(2, 0), F(1, 0)>>}

InitSession ==
    /\ app \in Apps
    /\ par \in parameter_controls(app)
    /\ \E tc \in session_time_controls : t_end = tc[1] /\ dt = tc[2]
    /\ stock = initial_stock_values(app)
    /\ rows = <<>>
    /\ t = Zero
    /\ pc = "loop"
    /\ err = "none"
    /\ results = <<>>
    /\ prior = {}
    /\ other = NoRun

\* what is remembered of the run that has just finished
finished_run ==
    [par |-> par, dt |-> dt, t_end |-> t_end, err |-> err, results |-> results]

\* a slider changed while the loop was running, and the loop went on
set_ui_element_value_mid_run ==
    /\ \E p \in parameter_controls(app) : p # par /\ par' = p
    /\ UNCHANGED <<app, dt, t_end, stock, rows, t, pc, err, results, prior, other>>

\* the stocks kept their values from one run to the next
set_ui_element_value_keep_stock ==
    /\ pc \in {"returned", "raised"}
    /\ Cardinality(prior \cup {finished_run}) <= MaxPrior
    /\ \E p \in parameter_controls(app), tc \in session_time_controls :
            /\ <<p, tc>> # <<par, <<t_end, dt>>>>
            /\ par' = p
            /\ t_end' = tc[1]
            /\ dt' = tc[2]
    /\ prior' = prior \cup {finished_run}
    /\ rows' = <<>>
    /\ t' = Zero
    /\ pc' = "loop"
    /\ err' = "none"
    /\ results' = <<>>
    /\ UNCHANGED <<app, stock, other>>

\* a slider or a time control gets a new value; the cell runs again from
\* its first line with the new values
set_ui_element_value ==
    /\ pc \in {"returned", "raised"}
    /\ Cardinality(prior \cup {finished_run}) <= MaxPrior
    /\ \E p \in parameter_controls(app), tc \in session_time_controls :
            /\ <<p, tc>> # <<par, <<t_end, dt>>>>
            /\ par' = p
            /\ t_end' = tc[1]
            /\ dt' = tc[2]
    /\ prior' = prior \cup {finished_run}
    /\ stock' = initial_stock_values(app)
    /\ rows' = <<>>
    /\ t' = Zero
    /\ pc' = "loop"
    /\ err' = "none"
    /\ results' = <<>>
    /\ UNCHANGED <<app, other>>

NextSession ==
    \/ Next
    \/ set_ui_element_value

SpecSession == InitSession /\ [][NextSession]_vars

(***************************************************************************)
(* Two calls of run_simulation cells whose loop iterations interleave.     *)
(* Each call has its own local variables: the variables of the call that   *)
(* takes the next step are app .. results, those of the call that waits    *)
(* are in other.                                                           *)
(***************************************************************************)
slider_defaults(a) ==
    CASE a = "ai_capex_dynamics" -> capex_parameter_controls
      [] a = "silver_supply_dynamics" -> silver_parameter_controls
      [] a = "sodium_battery_energy" -> sodium_parameter_controls
      [] a = "solar_ai_power" -> solar_parameter_controls
      [] a = "ai_agent_disruption" -> agent_parameter_controls
      [] a = "structural_oil_supply_shortage" -> oil_parameter_controls
      [] a = "ai_negative_growth" -> negative_growth_parameter_controls

\* the local variables of the call that takes the next step
frame ==
    [app |-> app, par |-> par, dt |-> dt, t_end |-> t_end, stock |-> stock,
     rows |-> rows, t |-> t, pc |-> pc, err |-> err, results |-> results]

\* a call at its first line
first_line(a, p, te, d) ==
    [app |-> a, par |-> p, dt |-> d, t_end |-> te,
     stock |-> initial_stock_values(a), rows |-> <<>>, t |-> Zero,
     pc |-> "loop", err |-> "none", results |-> <<>>]

\* one call with any slider profile, final time 1 and time step 1, and one
\* call of any notebook with its default sliders, final time 1, time step 0.5
InitPair ==
    /\ app \in Apps
    /\ par \in parameter_controls(app)
    /\ t_end = F(1, 0)
    /\ dt = F(1, 0)
    /\ stock = initial_stock_values(app)
    /\ rows = <<>>
    /\ t = Zero
    /\ pc = "loop"
    /\ err = "none"
    /\ results = <<>>
    /\ \E a \in Apps :
            other = first_line(a, slider_defaults(a), F(1, 0), F(5, -1))
    /\ prior = {}

\* the time counter is one variable shared by the two calls
switch_shared_time ==
    /\ other # NoRun
    /\ other' = frame
    /\ app' = other.app
    /\ par' = other.par
    /\ dt' = other.dt
    /\ t_end' = other.t_end
    /\ stock' = other.stock
    /\ rows' = other.rows
    /\ pc' = other.pc
    /\ err' = other.err
    /\ results' = other.results
    /\ UNCHANGED <<t, prior>>

\* the next step is taken by the call that waited
switch ==
    /\ other # NoRun
    /\ other' = frame
    /\ app' = other.app
    /\ par' = other.par
    /\ dt' = other.dt
    /\ t_end' = other.t_end
    /\ stock' = other.stock
    /\ rows' = other.rows
    /\ t' = other.t
    /\ pc' = other.pc
    /\ err' = other.err
    /\ results' = other.results
    /\ UNCHANGED prior

NextPair ==
    \/ Next
    \/ switch

SpecPair == InitPair /\ [][NextPair]_vars

(***************************************************************************)
(* Runs of silver_supply_dynamics and sodium_battery_energy with the       *)
(* sliders that switch a flow off                                          *)
(***************************************************************************)
InitZeroFlow ==
    /\ \/ app = "silver_supply_dynamics" /\ par = silver_unrestricted
       \/ app = "sodium_battery_energy" /\ par = sodium_flat
    /\ \E tc \in time_controls(app, par) : t_end = tc[1] /\ dt = tc[2]
    /\ stock = initial_stock_values(app)
    /\ rows = <<>>
    /\ t = Zero
    /\ pc = "loop"
    /\ err = "none"
    /\ results = <<>>
    /\ prior = {}
    /\ other = NoRun

NextZeroFlow ==
    \/ silver_run_simulation
    \/ sodium_run_simulation
    \/ return_results

SpecZeroFlow == InitZeroFlow /\ [][NextZeroFlow]_vars

(***************************************************************************)
(* The same loop on a model with one stock x whose net rate is the         *)
(* constant flow net_rate (the scenarios of the engine's test properties)  *)
(***************************************************************************)
single_stock_scenarios ==
    {[initial |-> F(5, 0), floor |-> Zero, net_rate |-> F(-10, 0)],
     [initial |-> F(10, 0), floor |-> Zero, net_rate |-> F(2, 0)],
     [initial |-> F(5, 0), floor |-> F(1, 0), net_rate |-> F(-15, -1)]}

single_stock_flows(s, p) == [net_rate |-> p.net_rate]

single_stock_net(f) == [x |-> f.net_rate]

\* every time step the time controls allow: 0.1, 0.2, ... 5.0;
\* final times 1..MaxTEndLoop
MaxTEndLoop == 5
AllDtTenths == 1..50

InitLoop ==
    /\ app = "single_stock"
    /\ par \in single_stock_scenarios
    /\ dt \in {F(k, -1) : k \in AllDtTenths}
    /\ t_end \in {F(te, 0) : te \in 1..MaxTEndLoop}
    /\ stock = [x |-> par.initial]
    /\ rows = <<>>
    /\ t = Zero
    /\ pc = "loop"
    /\ err = "none"
    /\ results = <<>>
    /\ prior = {}
    /\ other = NoRun

single_stock_run_simulation ==
    /\ app = "single_stock"
    /\ Iteration({}, single_stock_flows(stock, par),
                 single_stock_net(single_stock_flows(stock, par)),
                 [x |-> par.floor])

NextLoop ==
    \/ single_stock_run_simulation
    \/ return_results

SpecLoop == InitLoop /\ [][NextLoop]_vars

flows(a, s, p) ==
    CASE a = "ai_capex_dynamics" -> capex_flows(s, p)
      [] a = "silver_supply_dynamics" -> silver_flows(s, p)
      [] a = "sodium_battery_energy" -> sodium_flows(s, p)
      [] a = "solar_ai_power" -> solar_flows(s, p)
      [] a = "ai_agent_disruption" -> agent_flows(s, p)
      [] a = "structural_oil_supply_shortage" -> oil_flows(s, p)

\* the flows in the net rate of every stock (the Euler integration lines)
stock_flows(a) ==
    CASE a = "ai_capex_dynamics" ->
            [deployment_pipeline |-> {"new_capex", "capacity_deployed"},
             ai_infrastructure |-> {"capacity_deployed", "capacity_retired"},
             market_cap |-> {"valuation_adjustment"},
             tech_employment |-> {"tech_hiring", "job_displacement"}]
      [] a = "silver_supply_dynamics" ->
            [warehouse_inventory |->
                {"western_supply", "chinese_export_flow", "industrial_demand",
                 "net_retail_flow"},
             retail_holdings |-> {"net_retail_flow"},
             silver_price |-> {"price_change"},
             chinese_export_capacity |-> {"export_restriction"},
             retail_sentiment |-> {"sentiment_change"}]
      [] a = "sodium_battery_energy" ->
            [installed_capacity |-> {"new_installations", "retirements"},
             unit_cost |-> {"cost_reduction"},
             total_demand |-> {"demand_growth"},
             gas_generation |-> {"gas_displaced"},
             coal_generation |-> {"coal_displaced"}]
      [] a = "solar_ai_power" ->
            [solar_capacity |-> {"grid_connections", "panel_retirements"},
             data_center_demand |-> {"demand_increase"},
             solar_cost |-> {"cost_reduction"},
             battery_storage |-> {"storage_deployed", "storage_retired"},
             grid_queue |-> {"project_submissions", "grid_connections"}]
      [] a = "ai_agent_disruption" ->
            [task_horizon |-> {"capability_growth"},
             agent_users |-> {"new_adoptions"},
             saas_revenue |-> {"revenue_displacement"},
             gpu_compute |-> {"compute_investment", "compute_depreciation"}]
      [] a = "structural_oil_supply_shortage" ->
            [oil_supply_capacity |-> {"new_capacity_investment", "field_decline_rate"},
             cumulative_ev_fleet |-> {"ev_adoption_rate"},
             base_oil_demand_growth |-> {"demand_increase_rate"}]

stock_floor(a) ==
    CASE a = "ai_capex_dynamics" -> capex_floor
      [] a = "silver_supply_dynamics" -> silver_floor
      [] a = "sodium_battery_energy" -> sodium_floor
      [] a = "solar_ai_power" -> solar_floor
      [] a = "ai_agent_disruption" -> agent_floor
      [] a = "structural_oil_supply_shortage" -> oil_floor
      [] a = "ai_negative_growth" -> [n \in DOMAIN negative_growth_initial |-> Zero]

(***************************************************************************)
(* C1  Floor invariant: in every row of every run, every recorded stock    *)
(* value is greater than or equal to the floor of that stock.              *)
(***************************************************************************)
C1_FloorInvariant ==
    \A i \in 1..Len(rows) :
        \A n \in DOMAIN stock_floor(app) : Ge(rows[i][n], stock_floor(app)[n])

\* the net rate of change of every stock, from the flows of one row
net_rate(a, row) ==
    CASE a = "ai_capex_dynamics" -> capex_net(row)
      [] a = "silver_supply_dynamics" -> silver_net(row)
      [] a = "sodium_battery_energy" -> sodium_net(row)
      [] a = "solar_ai_power" -> solar_net(row)
      [] a = "ai_agent_disruption" -> agent_net(row)
      [] a = "structural_oil_supply_shortage" -> oil_net(row)

\* a time (a multiple of 0.1) as a whole number of tenths
Tenths(x) == IF x[2] >= 0 - 1 THEN x[1] * 10^(x[2] + 1) ELSE 0 - 1

(***************************************************************************)
(* C2  Euler step with pre-update recording: the first row holds the       *)
(* initial stock values, and for consecutive rows i, i+1 and every stock   *)
(* s, row[i+1][s] = max(row[i][s] + dt * net_rate_i(s), floor(s)) with     *)
(* net_rate_i(s) computed from the flows recorded in row i.                *)
(***************************************************************************)
C2_EulerStep ==
    /\ \A n \in DOMAIN stock_floor(app) :
          Len(rows) >= 1 => rows[1][n] = initial_stock_values(app)[n]
    /\ \A i \in 1..(Len(rows) - 1) :
          \A n \in DOMAIN stock_floor(app) :
             rows[i + 1][n] =
                PyMax(Add(rows[i][n], Mul(dt, net_rate(app, rows[i])[n])),
                      stock_floor(app)[n])

\* a run in which one stock was clamped at its floor and another was not
C2_Witness ==
    /\ Len(rows) >= 2
    /\ \E i \in 1..(Len(rows) - 1) :
          \E n, o \in DOMAIN stock_floor(app) :
             /\ Lt(Add(rows[i][n], Mul(dt, net_rate(app, rows[i])[n])),
                   stock_floor(app)[n])
             /\ rows[i + 1][n] = stock_floor(app)[n]
             /\ Lt(stock_floor(app)[o], rows[i + 1][o])
             /\ rows[i + 1][o] # rows[i][o]

(***************************************************************************)
(* C3  Row count for the documented case: a run with dt = 0.5 and          *)
(* t_end = 20 returns exactly 41 rows, the first with time 0 and the last  *)
(* with time 20.                                                           *)
(***************************************************************************)
C3_RowCount41 ==
    (pc = "returned" /\ dt = F(5, -1) /\ t_end = F(20, 0)) =>
        /\ Len(results) = 41
        /\ results[1].time = Zero
        /\ results[Len(results)].time = F(20, 0)

C3_Witness ==
    /\ pc = "returned"
    /\ app = "ai_capex_dynamics"
    /\ dt = F(5, -1)
    /\ t_end = F(20, 0)
    /\ Len(results) = 41

(***************************************************************************)
(* C4  General row count, as claimed: for every allowed dt and t_end the   *)
(* loop appends exactly floor(t_end / dt) + 1 rows.                        *)
(***************************************************************************)
C4_RowCountFloor ==
    pc = "returned" =>
        Len(results) = (Tenths(t_end) \div Tenths(dt)) + 1

(***************************************************************************)
(* C4 as amended: the loop appends exactly floor(t_end / dt + 1/2) + 1     *)
(* rows, which is floor(t_end / dt) + 1 whenever the fractional part of    *)
(* t_end / dt is below one half (in particular when dt divides t_end).     *)
(***************************************************************************)
C4_RowCountHalfStep ==
    pc = "returned" =>
        /\ Len(results) =
              ((2 * Tenths(t_end) + Tenths(dt)) \div (2 * Tenths(dt))) + 1
        /\ (2 * (Tenths(t_end) % Tenths(dt)) < Tenths(dt) =>
              Len(results) = (Tenths(t_end) \div Tenths(dt)) + 1)

\* a finished run whose final time is one half step past a multiple of dt
C4_Witness ==
    /\ pc = "returned"
    /\ dt = F(4, -1)
    /\ t_end = F(1, 0)
    /\ Len(results) = 4

C6_WitnessExact ==
    /\ pc = "returned"
    /\ app = "structural_oil_supply_shortage"
    /\ dt = F(3, -1)
    /\ t_end = F(3, 0)
    /\ results[Len(results)].time = t_end

(***************************************************************************)
(* C7  Floor clamping scenario: one stock with initial value 5, floor 0    *)
(* and constant net rate -10, run with dt = 1 and t_end = 3, yields four   *)
(* rows with values 5, 0, 0, 0, none of them negative.                     *)
(***************************************************************************)
C7_Scenario ==
    /\ app = "single_stock"
    /\ par = [initial |-> F(5, 0), floor |-> Zero, net_rate |-> F(-10, 0)]
    /\ dt = F(1, 0)
    /\ t_end = F(3, 0)

C7_FloorClamping ==
    (C7_Scenario /\ pc = "returned") =>
        /\ Len(results) = 4
        /\ [i \in 1..4 |-> results[i].x] = <<F(5, 0), Zero, Zero, Zero>>
        /\ \A i \in 1..Len(results) : results[i].x[1] >= 0

C7_Witness == C7_Scenario /\ pc = "returned" /\ Len(results) = 4

(***************************************************************************)
(* C8  Linear growth scenario: one stock with initial value 10, floor 0    *)
(* and constant inflow 2, run with dt = 1 and t_end = 5, yields six rows   *)
(* with values 10, 12, 14, 16, 18, 20 at times 0, 1, 2, 3, 4, 5.           *)
(***************************************************************************)
C8_Scenario ==
    /\ app = "single_stock"
    /\ par = [initial |-> F(10, 0), floor |-> Zero, net_rate |-> F(2, 0)]
    /\ dt = F(1, 0)
    /\ t_end = F(5, 0)

C8_LinearGrowth ==
    (C8_Scenario /\ pc = "returned") =>
        /\ Len(results) = 6
        /\ [i \in 1..6 |-> results[i].x] =
              <<F(10, 0), F(12, 0), F(14, 0), F(16, 0), F(18, 0), F(20, 0)>>
        /\ [i \in 1..6 |-> results[i].time] =
              <<Zero, F(1, 0), F(2, 0), F(3, 0), F(4, 0), F(5, 0)>>

C8_Witness == C8_Scenario /\ pc = "returned" /\ Len(results) = 6

(***************************************************************************)
(* C9  No partial failure: a run that raises an error raises it before     *)
(* the first row is appended.                                              *)
(***************************************************************************)
C9_NoPartialFailure == pc = "raised" => Len(rows) = 0

(***************************************************************************)
(* C10  Guarded divisions: every division of the loop body has a nonzero   *)
(* denominator, so no run ends with a division-by-zero error.              *)
(***************************************************************************)
C10_NoZeroDivision == err # "ZeroDivisionError"

C12_Determinism ==
    pc \in {"returned", "raised"} =>
        \A r \in prior :
            (r.par = par /\ r.dt = dt /\ r.t_end = t_end) =>
                (r.results = results /\ r.err = err)

\* a run repeated after a run with other slider values
C12_Witness ==
    /\ pc = "returned"
    /\ Len(results) >= 2
    /\ \E r \in prior : r.par = par /\ r.dt = dt /\ r.t_end = t_end
    /\ \E r \in prior : r.par # par /\ r.results # results

(***************************************************************************)
(* C13  Independent concurrent runs: when the iterations of two runs       *)
(* interleave in any order, the rows, stocks, time counter and table of    *)
(* each run are those the run produces alone: the first row holds the      *)
(* initial stocks at time 0, every row holds the flows of its own stocks   *)
(* and sliders, every next row the Euler step of the row before it with    *)
(* the run's own time step, and the table returned is the run's row list.  *)
(***************************************************************************)
C13_Alone(fr) ==
    LET a == fr.app
        n == Len(fr.rows)
        names == DOMAIN fr.stock
        bound == Add(fr.t_end, Div(fr.dt, F(2, 0)))
        after(row) ==
            [k \in names |->
                Euler(row[k], fr.dt, net_rate(a, row)[k], stock_floor(a)[k])]
    IN  /\ \A i \in 1..n :
                LET s == [k \in names |-> fr.rows[i][k]]
                IN  /\ fr.rows[i] = Row(fr.rows[i].time, s, flows(a, s, fr.par))
                    /\ Le(fr.rows[i].time, bound)
                    /\ IF i = 1
                       THEN fr.rows[i].time = Zero /\ s = initial_stock_values(a)
                       ELSE /\ fr.rows[i].time = Advance(fr.rows[i - 1].time, fr.dt)
                            /\ s = after(fr.rows[i - 1])
        /\ IF n = 0
           THEN fr.t = Zero /\ fr.stock = initial_stock_values(a)
           ELSE /\ fr.t = Advance(fr.rows[n].time, fr.dt)
                /\ fr.stock = after(fr.rows[n])
        /\ fr.pc = "returned" => (fr.results = fr.rows /\ ~Le(fr.t, bound))
        /\ fr.pc # "returned" => fr.results = <<>>

C13_IndependentRuns == other # NoRun => (C13_Alone(frame) /\ C13_Alone(other))

\* two calls of different notebooks, both in the middle of their loops
C13_Witness ==
    /\ other # NoRun
    /\ other.app # app
    /\ pc = "loop"
    /\ Len(rows) >= 1
    /\ other.pc = "loop"
    /\ Len(other.rows) >= 1

\* both calls have returned their tables
C13_WitnessReturned ==
    /\ other # NoRun
    /\ pc = "returned"
    /\ other.pc = "returned"
    /\ Len(results) = 2
    /\ Len(other.results) = 3

(***************************************************************************)
(* C14  Termination: the loop of every run ends (the cell returns its      *)
(* table or raises), after at most floor(t_end/dt + 1/2) + 1 iterations,   *)
(* whatever the sliders are and whatever values the stocks take.           *)
(***************************************************************************)
C14_IterationBound ==
    Len(rows) <= ((2 * Tenths(t_end) + Tenths(dt)) \div (2 * Tenths(dt))) + 1

C14_Termination == []C14_IterationBound /\ <>(pc \in {"returned", "raised"})

\* a run that ended with stocks that are no longer finite
C14_Witness ==
    /\ pc = "returned"
    /\ Len(results) >= 80
    /\ \E n \in DOMAIN stock : ~IsFinite(stock[n])

(***************************************************************************)
(* C15  Zero-flow idempotence: a stock whose flows are 0 in every row of   *)
(* a run has its initial value in every row (and after the last update).   *)
(***************************************************************************)
C15_ZeroFlows(n) ==
    \A i \in 1..Len(rows) : \A f \in stock_flows(app)[n] : rows[i][f] = Zero

C15_ZeroFlowIdempotence ==
    \A n \in DOMAIN stock :
        C15_ZeroFlows(n) =>
            /\ \A i \in 1..Len(rows) : rows[i][n] = initial_stock_values(app)[n]
            /\ stock[n] = initial_stock_values(app)[n]

\* a finished run of silver_supply_dynamics without export restriction,
\* in which another stock moved
C15_Witness ==
    /\ pc = "returned"
    /\ app = "silver_supply_dynamics"
    /\ Len(results) >= 3
    /\ C15_ZeroFlows("chinese_export_capacity")
    /\ results[3].silver_price # results[1].silver_price

\* a finished run of sodium_battery_energy with flat demand and flat cost
C15_WitnessFlat ==
    /\ pc = "returned"
    /\ app = "sodium_battery_energy"
    /\ Len(results) = 41
    /\ C15_ZeroFlows("unit_cost")
    /\ C15_ZeroFlows("total_demand")
    /\ results[41].installed_capacity # results[1].installed_capacity

(***************************************************************************)
(* C16  Append-only result: a step of a run never shortens the row list    *)
(* and never changes a row that is already in it; a returned table does    *)
(* not change any more.                                                    *)
(***************************************************************************)
C16_AppendOnly ==
    [][/\ Len(rows') >= Len(rows)
       /\ \A i \in 1..Len(rows) : rows'[i] = rows[i]
       /\ pc = "returned" => results' = results]_vars

\* the stocks have moved twice and the first row still holds the initial values
C16_Witness ==
    /\ Len(rows) >= 2
    /\ \E n \in DOMAIN stock :
            /\ rows[2][n] # rows[1][n]
            /\ stock[n] # rows[2][n]
    /\ \A n \in DOMAIN stock : rows[1][n] = initial_stock_values(app)[n]

(***************************************************************************)
(* The assignments of the loop bodies, one by one: every flow and          *)
(* computed variable as its right-hand side, read from a row r (stocks and *)
(* computed values) and the slider values p                                *)
(***************************************************************************)
\* ai_agent_disruption: lines 66-76
agent_formulas(r, p) ==
    [capability_growth |->
        Div(Mul(Mul(r.task_horizon, p.base_capability_growth), r.gpu_compute), F(100, 0)),
     compute_depreciation |-> Mul(r.gpu_compute, p.depreciation_rate),
     adoption_fraction |-> Div(r.agent_users, p.potential_market),
     remaining_market |-> Sub(p.potential_market, r.agent_users),
     ai_revenue |-> Div(Mul(r.agent_users, p.revenue_per_user), F(1000, 0)),
     capability_readiness |->
        Div(r.task_horizon, Add(r.task_horizon, p.capability_threshold)),
     compute_demand |-> Mul(r.agent_users, p.compute_per_user),
     compute_investment |->
        Add(p.base_compute_growth, Div(Mul(r.ai_revenue, p.reinvestment_fraction), p.compute_cost_per_unit)),
     revenue_displacement |->
        Mul(Mul(Mul(r.saas_revenue, p.displacement_rate), r.adoption_fraction), r.capability_readiness),
     compute_availability |->
        Div(r.gpu_compute, Add(r.compute_demand, r.gpu_compute)),
     new_adoptions |->
        Mul(Mul(Mul(Add(p.innovation_rate, Mul(p.imitation_rate, r.adoption_fraction)), r.remaining_market), r.capability_readiness), r.compute_availability)]

\* ai_capex_dynamics: lines 64-74
capex_formulas(r, p) ==
    [new_capex |->
        Div(Mul(p.base_capex_rate, r.market_cap), p.reference_valuation),
     capacity_deployed |-> Div(r.deployment_pipeline, p.deployment_lag),
     capacity_retired |-> Div(r.ai_infrastructure, p.infrastructure_life),
     tech_hiring |-> Mul(r.tech_employment, p.base_hiring_rate),
     job_displacement |-> Mul(r.ai_infrastructure, p.displacement_intensity),
     ai_revenue |->
        Div(Mul(Mul(r.ai_infrastructure, p.revenue_per_capacity), r.tech_employment), p.base_tech_workforce),
     employment_ratio |-> Div(r.tech_employment, p.base_tech_workforce),
     actual_roi |-> Div(r.ai_revenue, PyMax(r.ai_infrastructure, F(1, -6))),
     pe_ratio |->
        Div(Mul(r.market_cap, F(1000, 0)), PyMax(r.ai_revenue, F(1, -6))),
     returns_gap |-> Sub(r.actual_roi, p.expected_roi),
     valuation_adjustment |->
        Mul(Mul(r.market_cap, p.valuation_sensitivity), r.returns_gap)]

\* silver_supply_dynamics: lines 67-79
silver_formulas(r, p) ==
    [western_supply |-> p.western_supply_base,
     industrial_demand |->
        Add(p.base_industrial_demand, p.solar_demand_growth),
     net_retail_flow |->
        Mul(Mul(p.retail_buy_intensity, r.retail_sentiment), r.warehouse_inventory),
     chinese_export_flow |->
        Mul(r.chinese_export_capacity, p.china_export_fraction),
     export_restriction |->
        Mul(Mul(r.chinese_export_capacity, p.restriction_rate), p.geopolitical_pressure),
     inventory_ratio |-> Div(r.warehouse_inventory, p.reference_inventory),
     effective_amplification |->
        Sub(p.social_media_amplifier, p.institutional_dampening),
     sentiment_decay |-> Mul(r.retail_sentiment, p.sentiment_decay_rate),
     demand_supply_pressure |-> Sub(F(1, 0), r.inventory_ratio),
     price_change |->
        Mul(Mul(r.silver_price, p.price_adjustment_speed), r.demand_supply_pressure),
     price_momentum |-> Div(r.price_change, PyMax(r.silver_price, F(1, -6))),
     sentiment_change |->
        Sub(Mul(r.effective_amplification, r.price_momentum), r.sentiment_decay),
     institutional_edge |-> Sub(r.demand_supply_pressure, r.price_momentum)]

\* sodium_battery_energy: lines 66-77
sodium_formulas(r, p) ==
    [new_installations |->
        Div(p.investment_budget, PyMax(r.unit_cost, F(1, -6))),
     retirements |-> Div(r.installed_capacity, p.battery_lifetime),
     cost_reduction |-> Mul(r.unit_cost, p.cost_decline_rate),
     demand_growth |-> Mul(r.total_demand, p.baseline_growth_rate),
     dispatchable_power |->
        Div(Mul(Mul(r.installed_capacity, p.round_trip_efficiency), p.capacity_utilization), p.discharge_hours),
     cost_per_kwh |-> Mul(r.unit_cost, F(1000, 0)),
     gas_price |-> Div(Mul(p.gas_base_price, r.gas_generation), F(1500, 0)),
     coal_price |->
        Div(Mul(p.coal_base_price, r.coal_generation), F(2000, 0)),
     net_peak_demand |-> Sub(r.total_demand, r.dispatchable_power),
     storage_penetration |->
        Div(r.dispatchable_power, PyMax(r.total_demand, F(1, -6))),
     gas_displaced |->
        Mul(Mul(r.gas_generation, r.storage_penetration), p.gas_retirement_rate),
     coal_displaced |->
        Mul(Mul(r.coal_generation, r.storage_penetration), p.coal_retirement_rate)]

\* solar_ai_power: lines 66-77
solar_formulas(r, p) ==
    [project_submissions |->
        Div(p.solar_investment, PyMax(r.solar_cost, F(1, -6))),
     grid_connections |-> Mul(r.grid_queue, p.connection_rate),
     panel_retirements |-> Div(r.solar_capacity, p.panel_lifetime),
     demand_increase |-> Mul(r.data_center_demand, p.demand_growth_rate),
     cost_reduction |-> Mul(r.solar_cost, p.cost_learning_rate),
     storage_deployed |-> Div(p.storage_investment, p.storage_unit_cost),
     storage_retired |-> Div(r.battery_storage, p.battery_lifetime),
     solar_power_output |-> Mul(r.solar_capacity, p.capacity_factor),
     dispatchable_storage |->
        Div(Mul(r.battery_storage, p.battery_efficiency), p.discharge_hours),
     queue_pressure |-> Div(r.grid_queue, PyMax(r.solar_capacity, F(1, -6))),
     total_clean_power |-> Add(r.solar_power_output, r.dispatchable_storage),
     clean_to_demand_ratio |->
        Div(r.total_clean_power, PyMax(r.data_center_demand, F(1, -6)))]

\* structural_oil_supply_shortage: lines 71-84
oil_formulas(r, p) ==
    [oil_demand_displaced_by_evs |->
        Mul(Mul(r.cumulative_ev_fleet, p.barrels_per_ev_per_day), p.displacement_efficiency),
     actual_oil_demand |->
        Sub(r.base_oil_demand_growth, r.oil_demand_displaced_by_evs),
     supply_demand_gap |-> Sub(r.actual_oil_demand, r.oil_supply_capacity),
     gap_ratio |-> Div(r.supply_demand_gap, r.oil_supply_capacity),
     oil_price |->
        Add(p.reference_oil_price, Mul(Mul(r.gap_ratio, p.price_elasticity), p.reference_oil_price)),
     oil_price_effect_on_evs |->
        Mul(Div(Sub(r.oil_price, p.reference_oil_price), p.reference_oil_price), p.price_sensitivity),
     ev_adoption_multiplier |-> Add(F(1, 0), r.oil_price_effect_on_evs),
     price_above_breakeven |-> Sub(r.oil_price, p.breakeven_price),
     normalized_investment_signal |->
        Div(r.price_above_breakeven, p.breakeven_price),
     investment_incentive |->
        Div(Add(r.normalized_investment_signal, p.positive_incentive_filter), F(2, 0)),
     new_capacity_investment |->
        Mul(r.investment_incentive, p.investment_response_factor),
     field_decline_rate |->
        Mul(r.oil_supply_capacity, p.natural_decline_fraction),
     ev_adoption_rate |->
        Mul(p.base_ev_growth_rate, r.ev_adoption_multiplier),
     demand_increase_rate |->
        Mul(r.base_oil_demand_growth, p.annual_demand_growth_fraction)]

(***************************************************************************)
(* The same assignments run as Python runs them: one after the other on    *)
(* the local names e of the cell, each reading the value its operands hold *)
(* at that moment                                                          *)
(***************************************************************************)
\* ai_agent_disruption: the statements of lines 66-76 in their order
agent_body(e, p) ==
    LET e1 == ("capability_growth" :>
                Div(Mul(Mul(e.task_horizon, p.base_capability_growth), e.gpu_compute), F(100, 0))) @@ e
        e2 == ("compute_depreciation" :>
                Mul(e1.gpu_compute, p.depreciation_rate)) @@ e1
        e3 == ("adoption_fraction" :>
                Div(e2.agent_users, p.potential_market)) @@ e2
        e4 == ("remaining_market" :>
                Sub(p.potential_market, e3.agent_users)) @@ e3
        e5 == ("ai_revenue" :>
                Div(Mul(e4.agent_users, p.revenue_per_user), F(1000, 0))) @@ e4
        e6 == ("capability_readiness" :>
                Div(e5.task_horizon, Add(e5.task_horizon, p.capability_threshold))) @@ e5
        e7 == ("compute_demand" :>
                Mul(e6.agent_users, p.compute_per_user)) @@ e6
        e8 == ("compute_investment" :>
                Add(p.base_compute_growth, Div(Mul(e7.ai_revenue, p.reinvestment_fraction), p.compute_cost_per_unit))) @@ e7
        e9 == ("revenue_displacement" :>
                Mul(Mul(Mul(e8.saas_revenue, p.displacement_rate), e8.adoption_fraction), e8.capability_readiness)) @@ e8
        e10 == ("compute_availability" :>
                Div(e9.gpu_compute, Add(e9.compute_demand, e9.gpu_compute))) @@ e9
        e11 == ("new_adoptions" :>
                Mul(Mul(Mul(Add(p.innovation_rate, Mul(p.imitation_rate, e10.adoption_fraction)), e10.remaining_market), e10.capability_readiness), e10.compute_availability)) @@ e10
    IN  e11

\* ai_capex_dynamics: the statements of lines 64-74 in their order
capex_body(e, p) ==
    LET e1 == ("new_capex" :>
                Div(Mul(p.base_capex_rate, e.market_cap), p.reference_valuation)) @@ e
        e2 == ("capacity_deployed" :>
                Div(e1.deployment_pipeline, p.deployment_lag)) @@ e1
        e3 == ("capacity_retired" :>
                Div(e2.ai_infrastructure, p.infrastructure_life)) @@ e2
        e4 == ("tech_hiring" :>
                Mul(e3.tech_employment, p.base_hiring_rate)) @@ e3
        e5 == ("job_displacement" :>
                Mul(e4.ai_infrastructure, p.displacement_intensity)) @@ e4
        e6 == ("ai_revenue" :>
                Div(Mul(Mul(e5.ai_infrastructure, p.revenue_per_capacity), e5.tech_employment), p.base_tech_workforce)) @@ e5
        e7 == ("employment_ratio" :>
                Div(e6.tech_employment, p.base_tech_workforce)) @@ e6
        e8 == ("actual_roi" :>
                Div(e7.ai_revenue, PyMax(e7.ai_infrastructure, F(1, -6)))) @@ e7
        e9 == ("pe_ratio" :>
                Div(Mul(e8.market_cap, F(1000, 0)), PyMax(e8.ai_revenue, F(1, -6)))) @@ e8
        e10 == ("returns_gap" :>
                Sub(e9.actual_roi, p.expected_roi)) @@ e9
        e11 == ("valuation_adjustment" :>
                Mul(Mul(e10.market_cap, p.valuation_sensitivity), e10.returns_gap)) @@ e10
    IN  e11

\* silver_supply_dynamics: the statements of lines 67-79 in their order
silver_body(e, p) ==
    LET e1 == ("western_supply" :>
                p.western_supply_base) @@ e
        e2 == ("industrial_demand" :>
                Add(p.base_industrial_demand, p.solar_demand_growth)) @@ e1
        e3 == ("net_retail_flow" :>
                Mul(Mul(p.retail_buy_intensity, e2.retail_sentiment), e2.warehouse_inventory)) @@ e2
        e4 == ("chinese_export_flow" :>
                Mul(e3.chinese_export_capacity, p.china_export_fraction)) @@ e3
        e5 == ("export_restriction" :>
                Mul(Mul(e4.chinese_export_capacity, p.restriction_rate), p.geopolitical_pressure)) @@ e4
        e6 == ("inventory_ratio" :>
                Div(e5.warehouse_inventory, p.reference_inventory)) @@ e5
        e7 == ("effective_amplification" :>
                Sub(p.social_media_amplifier, p.institutional_dampening)) @@ e6
        e8 == ("sentiment_decay" :>
                Mul(e7.retail_sentiment, p.sentiment_decay_rate)) @@ e7
        e9 == ("demand_supply_pressure" :>
                Sub(F(1, 0), e8.inventory_ratio)) @@ e8
        e10 == ("price_change" :>
                Mul(Mul(e9.silver_price, p.price_adjustment_speed), e9.demand_supply_pressure)) @@ e9
        e11 == ("price_momentum" :>
                Div(e10.price_change, PyMax(e10.silver_price, F(1, -6)))) @@ e10
        e12 == ("sentiment_change" :>
                Sub(Mul(e11.effective_amplification, e11.price_momentum), e11.sentiment_decay)) @@ e11
        e13 == ("institutional_edge" :>
                Sub(e12.demand_supply_pressure, e12.price_momentum)) @@ e12
    IN  e13

\* sodium_battery_energy: the statements of lines 66-77 in their order
sodium_body(e, p) ==
    LET e1 == ("new_installations" :>
                Div(p.investment_budget, PyMax(e.unit_cost, F(1, -6)))) @@ e
        e2 == ("retirements" :>
                Div(e1.installed_capacity, p.battery_lifetime)) @@ e1
        e3 == ("cost_reduction" :>
                Mul(e2.unit_cost, p.cost_decline_rate)) @@ e2
        e4 == ("demand_growth" :>
                Mul(e3.total_demand, p.baseline_growth_rate)) @@ e3
        e5 == ("dispatchable_power" :>
                Div(Mul(Mul(e4.installed_capacity, p.round_trip_efficiency), p.capacity_utilization), p.discharge_hours)) @@ e4
        e6 == ("cost_per_kwh" :>
                Mul(e5.unit_cost, F(1000, 0))) @@ e5
        e7 == ("gas_price" :>
                Div(Mul(p.gas_base_price, e6.gas_generation), F(1500, 0))) @@ e6
        e8 == ("coal_price" :>
                Div(Mul(p.coal_base_price, e7.coal_generation), F(2000, 0))) @@ e7
        e9 == ("net_peak_demand" :>
                Sub(e8.total_demand, e8.dispatchable_power)) @@ e8
        e10 == ("storage_penetration" :>
                Div(e9.dispatchable_power, PyMax(e9.total_demand, F(1, -6)))) @@ e9
        e11 == ("gas_displaced" :>
                Mul(Mul(e10.gas_generation, e10.storage_penetration), p.gas_retirement_rate)) @@ e10
        e12 == ("coal_displaced" :>
                Mul(Mul(e11.coal_generation, e11.storage_penetration), p.coal_retirement_rate)) @@ e11
    IN  e12

\* solar_ai_power: the statements of lines 66-77 in their order
solar_body(e, p) ==
    LET e1 == ("project_submissions" :>
                Div(p.solar_investment, PyMax(e.solar_cost, F(1, -6)))) @@ e
        e2 == ("grid_connections" :>
                Mul(e1.grid_queue, p.connection_rate)) @@ e1
        e3 == ("panel_retirements" :>
                Div(e2.solar_capacity, p.panel_lifetime)) @@ e2
        e4 == ("demand_increase" :>
                Mul(e3.data_center_demand, p.demand_growth_rate)) @@ e3
        e5 == ("cost_reduction" :>
                Mul(e4.solar_cost, p.cost_learning_rate)) @@ e4
        e6 == ("storage_deployed" :>
                Div(p.storage_investment, p.storage_unit_cost)) @@ e5
        e7 == ("storage_retired" :>
                Div(e6.battery_storage, p.battery_lifetime)) @@ e6
        e8 == ("solar_power_output" :>
                Mul(e7.solar_capacity, p.capacity_factor)) @@ e7
        e9 == ("dispatchable_storage" :>
                Div(Mul(e8.battery_storage, p.battery_efficiency), p.discharge_hours)) @@ e8
        e10 == ("queue_pressure" :>
                Div(e9.grid_queue, PyMax(e9.solar_capacity, F(1, -6)))) @@ e9
        e11 == ("total_clean_power" :>
                Add(e10.solar_power_output, e10.dispatchable_storage)) @@ e10
        e12 == ("clean_to_demand_ratio" :>
                Div(e11.total_clean_power, PyMax(e11.data_center_demand, F(1, -6)))) @@ e11
    IN  e12

\* structural_oil_supply_shortage: the statements of lines 71-84 in their order
oil_body(e, p) ==
    LET e1 == ("oil_demand_displaced_by_evs" :>
                Mul(Mul(e.cumulative_ev_fleet, p.barrels_per_ev_per_day), p.displacement_efficiency)) @@ e
        e2 == ("actual_oil_demand" :>
                Sub(e1.base_oil_demand_growth, e1.oil_demand_displaced_by_evs)) @@ e1
        e3 == ("supply_demand_gap" :>
                Sub(e2.actual_oil_demand, e2.oil_supply_capacity)) @@ e2
        e4 == ("gap_ratio" :>
                Div(e3.supply_demand_gap, e3.oil_supply_capacity)) @@ e3
        e5 == ("oil_price" :>
                Add(p.reference_oil_price, Mul(Mul(e4.gap_ratio, p.price_elasticity), p.reference_oil_price))) @@ e4
        e6 == ("oil_price_effect_on_evs" :>
                Mul(Div(Sub(e5.oil_price, p.reference_oil_price), p.reference_oil_price), p.price_sensitivity)) @@ e5
        e7 == ("ev_adoption_multiplier" :>
                Add(F(1, 0), e6.oil_price_effect_on_evs)) @@ e6
        e8 == ("price_above_breakeven" :>
                Sub(e7.oil_price, p.breakeven_price)) @@ e7
        e9 == ("normalized_investment_signal" :>
                Div(e8.price_above_breakeven, p.breakeven_price)) @@ e8
        e10 == ("investment_incentive" :>
                Div(Add(e9.normalized_investment_signal, p.positive_incentive_filter), F(2, 0))) @@ e9
        e11 == ("new_capacity_investment" :>
                Mul(e10.investment_incentive, p.investment_response_factor)) @@ e10
        e12 == ("field_decline_rate" :>
                Mul(e11.oil_supply_capacity, p.natural_decline_fraction)) @@ e11
        e13 == ("ev_adoption_rate" :>
                Mul(p.base_ev_growth_rate, e12.ev_adoption_multiplier)) @@ e12
        e14 == ("demand_increase_rate" :>
                Mul(e13.base_oil_demand_growth, p.annual_demand_growth_fraction)) @@ e13
    IN  e14

body(a, e, p) ==
    CASE a = "ai_capex_dynamics" -> capex_body(e, p)
      [] a = "silver_supply_dynamics" -> silver_body(e, p)
      [] a = "sodium_battery_energy" -> sodium_body(e, p)
      [] a = "solar_ai_power" -> solar_body(e, p)
      [] a = "ai_agent_disruption" -> agent_body(e, p)
      [] a = "structural_oil_supply_shortage" -> oil_body(e, p)

\* the computed names that are given a value before the loop
locals_before_loop(a, p) ==
    IF a = "structural_oil_supply_shortage"
    THEN [oil_price |-> p.reference_oil_price, oil_price_effect_on_evs |-> Zero]
    ELSE <<>>

formulas(a, r, p) ==
    CASE a = "ai_capex_dynamics" -> capex_formulas(r, p)
      [] a = "silver_supply_dynamics" -> silver_formulas(r, p)
      [] a = "sodium_battery_energy" -> sodium_formulas(r, p)
      [] a = "solar_ai_power" -> solar_formulas(r, p)
      [] a = "ai_agent_disruption" -> agent_formulas(r, p)
      [] a = "structural_oil_supply_shortage" -> oil_formulas(r, p)

\* the row holds the time, the stocks and every assigned name, and every
\* assigned name holds its right-hand side read from the row itself
C21_RowConsistent(a, r, p) ==
    \E f \in {formulas(a, r, p)} :
        /\ DOMAIN r = {"time"} \cup DOMAIN initial_stock_values(a) \cup DOMAIN f
        /\ \A n \in DOMAIN f : r[n] = f[n]

\* C21: in every row of every notebook each flow and computed variable
\* equals its formula applied to the stocks, the slider values and the
\* other computed values of that same row; the row is what the statements
\* of the pass give when run in their order on the local names, whatever the
\* lines before the loop or the pass before left in the computed names
\* (ai_negative_growth, whose names are set to 0 before the loop, has no row)
\* the local names when pass i starts: the time and the stocks of row i,
\* and for the computed names what the pass before (or the lines before
\* the loop) left in them
C21_LocalsAtPass(i) ==
    [n \in {"time"} \cup DOMAIN initial_stock_values(app) |-> rows[i][n]]
        @@ (IF i = 1 THEN locals_before_loop(app, par) ELSE rows[i - 1])

C21_SameRowConsistency ==
    /\ app = "ai_negative_growth" => rows = <<>>
    /\ \A i \in 1..Len(rows) :
          /\ C21_RowConsistent(app, rows[i], par)
          /\ rows[i] = body(app, C21_LocalsAtPass(i), par)

\* a second row of structural_oil_supply_shortage whose price and price
\* effect are neither the values set before the loop nor those of the
\* first row
C21_Witness ==
    /\ app = "structural_oil_supply_shortage"
    /\ Len(rows) >= 2
    /\ rows[2].oil_price # par.reference_oil_price
    /\ rows[2].oil_price # rows[1].oil_price
    /\ rows[2].oil_price_effect_on_evs # Zero
    /\ rows[2].oil_price_effect_on_evs # rows[1].oil_price_effect_on_evs
    /\ rows[2].ev_adoption_multiplier # rows[1].ev_adoption_multiplier

\* C22: in every row of structural_oil_supply_shortage
\* investment_incentive >= positive_incentive_filter, and
\* new_capacity_investment is never negative
C22_MinimumInvestment ==
    app = "structural_oil_supply_shortage" =>
        \A i \in 1..Len(rows) :
            /\ Ge(rows[i].investment_incentive, par.positive_incentive_filter)
            /\ Ge(rows[i].new_capacity_investment, Zero)

\* C23: in every row of structural_oil_supply_shortage
\* new_capacity_investment <= investment_response_factor
C23_MaximumInvestment ==
    app = "structural_oil_supply_shortage" =>
        \A i \in 1..Len(rows) :
            Le(rows[i].new_capacity_investment, par.investment_response_factor)

\* C24: with the default sliders the first row of silver_supply_dynamics
\* has western_supply = 640, chinese_export_flow = 64, industrial_demand =
\* 700 and net_retail_flow = 13.5; the net rate of warehouse_inventory is
\* -9.5, and the first step applies it
C24_FirstRowSilver ==
    (/\ app = "silver_supply_dynamics"
     /\ par = silver_parameter_controls
     /\ Len(rows) >= 1)
    => /\ rows[1].time = Zero
       /\ rows[1].western_supply = F(640, 0)
       /\ rows[1].chinese_export_flow = F(64, 0)
       /\ rows[1].industrial_demand = F(700, 0)
       /\ rows[1].net_retail_flow = F(135, -1)
       /\ Sub(Sub(Add(rows[1].western_supply, rows[1].chinese_export_flow),
                  rows[1].industrial_demand), rows[1].net_retail_flow)
            = F(0 - 95, -1)
       /\ Len(rows) >= 2 =>
            rows[2].warehouse_inventory =
                PyMax(Add(F(300, 0), Mul(dt, F(0 - 95, -1))), F(10, 0))

\* a run with the default sliders has taken its first step
C24_Witness ==
    /\ app = "silver_supply_dynamics"
    /\ par = silver_parameter_controls
    /\ Len(rows) >= 2
    /\ rows[2].warehouse_inventory # rows[1].warehouse_inventory
    /\ dt = F(5, -1)

\* C25: with the default sliders the first row of ai_agent_disruption has
\* agent_users = 50, adoption_fraction = 0.1 (50 of a potential market of
\* 500), task_horizon = 1, saas_revenue = 300 and ai_revenue = 10
C25_FirstRowAgent ==
    (/\ app = "ai_agent_disruption"
     /\ par = agent_parameter_controls
     /\ Len(rows) >= 1)
    => /\ rows[1].time = Zero
       /\ par.potential_market = F(500, 0)
       /\ rows[1].agent_users = F(50, 0)
       /\ rows[1].adoption_fraction = F(1, -1)
       /\ rows[1].task_horizon = F(1, 0)
       /\ rows[1].saas_revenue = F(300, 0)
       /\ rows[1].ai_revenue = F(10, 0)

\* a run with the default sliders has recorded its first rows
C25_Witness ==
    /\ app = "ai_agent_disruption"
    /\ par = agent_parameter_controls
    /\ Len(rows) >= 2
    /\ rows[2].agent_users # F(50, 0)
    /\ rows[2].ai_revenue # F(10, 0)

C27_Imbalance(i) ==
    Sub(Sub(Add(rows[i + 1].solar_capacity, rows[i + 1].grid_queue),
            Add(rows[i].solar_capacity, rows[i].grid_queue)),
        Mul(dt, Sub(rows[i].project_submissions, rows[i].panel_retirements)))

\* C27: in solar_ai_power grid_connections is a pure transfer from
\* grid_queue to solar_capacity: in every step, clamped or not,
\* solar_capacity + grid_queue changes by dt * (project_submissions -
\* panel_retirements) (here: up to 0.01, the rounding of the arithmetic),
\* and the capacity connected in a step, dt * grid_connections, never
\* exceeds the queue plus what was submitted in that step
C27_PureTransfer ==
    app = "solar_ai_power" =>
        /\ \A i \in 1..Len(rows) :
              Le(Mul(dt, rows[i].grid_connections),
                 Add(rows[i].grid_queue, Mul(dt, rows[i].project_submissions)))
        /\ \A i \in 1..(Len(rows) - 1) :
              /\ Le(C27_Imbalance(i), F(1, -2))
              /\ Le(F(0 - 1, -2), C27_Imbalance(i))

\* C28: in ai_agent_disruption agent_users never exceeds potential_market
\* in any row: 0 <= adoption_fraction <= 1 and remaining_market >= 0
C28_MarketBound ==
    app = "ai_agent_disruption" =>
        \A i \in 1..Len(rows) :
            /\ Le(rows[i].agent_users, par.potential_market)
            /\ Ge(rows[i].adoption_fraction, Zero)
            /\ Le(rows[i].adoption_fraction, F(1, 0))
            /\ Ge(rows[i].remaining_market, Zero)

\* C30: in ai_agent_disruption saas_revenue only has an outflow:
\* revenue_displacement >= 0 in every row, and saas_revenue in row i + 1 is
\* less than or equal to saas_revenue in row i
C30_OutflowOnly ==
    app = "ai_agent_disruption" =>
        /\ \A i \in 1..Len(rows) : Ge(rows[i].revenue_displacement, Zero)
        /\ \A i \in 1..(Len(rows) - 1) :
              Le(rows[i + 1].saas_revenue, rows[i].saas_revenue)

\* |a|
C29_Magnitude(a) == IF IsNaN(a) THEN NaN ELSE <<Abs(a[1]), a[2]>>

\* a and b differ by at most one millionth of |scale|
C29_Near(a, b, scale) ==
    Le(C29_Magnitude(Sub(a, b)), Mul(F(1, -6), C29_Magnitude(scale)))

\* the statement as written, the two identities as equalities of the
\* recorded values: violated, the two sides differ in their last digits
C29_ExactIdentities ==
    app = "silver_supply_dynamics" =>
        \A i \in 1..Len(rows) :
            /\ Ge(rows[i].silver_price, F(5, 0))
            /\ rows[i].price_momentum =
                    Mul(par.price_adjustment_speed, rows[i].demand_supply_pressure)
            /\ rows[i].institutional_edge =
                    Mul(rows[i].demand_supply_pressure,
                        Sub(F(1, 0), par.price_adjustment_speed))

\* C29: in silver_supply_dynamics silver_price >= 5 in every row, so
\* max(silver_price, 1e-6) is silver_price itself, and in every row
\* price_momentum is price_adjustment_speed * demand_supply_pressure and
\* institutional_edge is demand_supply_pressure * (1 - price_adjustment_speed),
\* both up to the rounding of the arithmetic
C29_PriceGuard ==
    app = "silver_supply_dynamics" =>
        \A i \in 1..Len(rows) :
            /\ Ge(rows[i].silver_price, F(5, 0))
            /\ PyMax(rows[i].silver_price, F(1, -6)) = rows[i].silver_price
            /\ C29_Near(rows[i].price_momentum,
                        Mul(par.price_adjustment_speed,
                            rows[i].demand_supply_pressure),
                        rows[i].demand_supply_pressure)
            /\ C29_Near(rows[i].institutional_edge,
                        Mul(rows[i].demand_supply_pressure,
                            Sub(F(1, 0), par.price_adjustment_speed)),
                        rows[i].demand_supply_pressure)

\* a row whose price was clamped to 5 and whose momentum is not zero
C29_Witness ==
    /\ app = "silver_supply_dynamics"
    /\ \E i \in 2..Len(rows) :
            /\ rows[i].silver_price = F(5, 0)
            /\ rows[i - 1].silver_price # F(5, 0)
            /\ rows[i].price_momentum # Zero
            /\ rows[i].price_change # Zero

====
